---- MODULE Spec2Model ----
(***************************************************************************)
(* lolarchiver-cli: one invocation of the command-line client.             *)
(*                                                                         *)
(* The model follows one process from os.Args to its exit: the router in   *)
(* main, the flag parsing of each handler, the credential store            *)
(* (config.Load / GetAPIKey / SetAPIKey), the catalog methods of           *)
(* api.Client, Client.Do with its elapsed-time goroutine, the goroutine    *)
(* the twitter, phone and database handlers start themselves, and the      *)
(* status interpretation of the phone and database handlers.               *)
(*                                                                         *)
(* Text is modelled as sequences of strings: a line of standard output is  *)
(* the sequence of the pieces fmt printed, a response body is the sequence *)
(* of its JSON tokens.                                                     *)
(***************************************************************************)
EXTENDS Integers, Sequences, FiniteSets, TLC

VARIABLES
    osArgs,     \* os.Args (osArgs[1] is the program name, os.Args[k] = osArgs[k+1])
    store,      \* the credential store on disk: [st, key]
    pc,         \* position of the main goroutine
    op,         \* the catalog operation the handler is about to call
    params,     \* the handler's flag values (flag name -> value)
    cfgKey,     \* config.APIKey as read by the handler's own config.Load()
    apiKey,     \* Client.apiKey
    loads,      \* number of config.Load() calls made so far
    httpReq,    \* the *http.Request built by Client.Do
    httpCalls,  \* number of c.client.Do(httpReq) calls made so far
    fault,      \* the underlying cause the transport failed with ("" if none)
    result,     \* what Client.Do returns: [ok, StatusCode, Body, err]
    outer,      \* the indicator goroutine started by the handler
    inner,      \* the indicator goroutine started by Client.Do
    stdout,     \* lines printed on standard output
    stderr,     \* events written to the diagnostic stream
    exitCode    \* the process exit code, -1 while it runs

vars == <<osArgs, store, pc, op, params, cfgKey, apiKey, loads, httpReq,
          httpCalls, fault, result, outer, inner, stdout, stderr, exitCode>>

-----------------------------------------------------------------------------
(* Bounds of the model.                                                    *)

\* number of arguments after the (sub)command word
MaxArgs == 2
\* number of repaints the indicator goroutines make in one run
MaxSpin == 1
\* length, in tokens, of the response bodies enumerated for the interpreter
MaxBodyLen == 2

-----------------------------------------------------------------------------
(* Small helpers.                                                          *)

RECURSIVE SeqsUpTo(_, _)
SeqsUpTo(S, n) ==
    IF n = 0 THEN {<<>>}
    ELSE LET shorter == SeqsUpTo(S, n - 1)
         IN  shorter \cup {Append(s, x) : s \in shorter, x \in S}

Last(s) == s[Len(s)]

Range(f) == {f[x] : x \in DOMAIN f}

EmptyMap == [k \in {} |-> ""]

-----------------------------------------------------------------------------
(* The flag package, as the handlers use it: flag.NewFlagSet(name,         *)
(* flag.ExitOnError), FlagSet.String/Int/Int64/Bool and FlagSet.Parse.     *)

\* The command-line tokens of the model that start with "-", parsed as
\* FlagSet.parseOne parses them: the name after the dashes, and the value
\* after "=" when there is one.
FlagSyntax ==
    [t \in {"--bogus", "--help",
            "--user-id=bob", "--handle=bob", "--channel-id=bob", "--offset=7",
            "--comment-id=bob", "--id=7", "--id=0", "--by-old",
            "--username=bob", "--username", "--mode=utype", "--server=main", "--offset",
            "--phone", "--email=bob", "--insecure",
            "--query", "--query=bob", "--exact"} |->
        CASE t = "--bogus"          -> [name |-> "bogus",      hasValue |-> FALSE, value |-> ""]
          [] t = "--help"           -> [name |-> "help",       hasValue |-> FALSE, value |-> ""]
          [] t = "--user-id=bob"    -> [name |-> "user-id",    hasValue |-> TRUE,  value |-> "bob"]
          [] t = "--handle=bob"     -> [name |-> "handle",     hasValue |-> TRUE,  value |-> "bob"]
          [] t = "--channel-id=bob" -> [name |-> "channel-id", hasValue |-> TRUE,  value |-> "bob"]
          [] t = "--offset=7"       -> [name |-> "offset",     hasValue |-> TRUE,  value |-> "7"]
          [] t = "--comment-id=bob" -> [name |-> "comment-id", hasValue |-> TRUE,  value |-> "bob"]
          [] t = "--id=7"           -> [name |-> "id",         hasValue |-> TRUE,  value |-> "7"]
          [] t = "--id=0"           -> [name |-> "id",         hasValue |-> TRUE,  value |-> "0"]
          [] t = "--by-old"         -> [name |-> "by-old",     hasValue |-> FALSE, value |-> ""]
          [] t = "--username=bob"   -> [name |-> "username",   hasValue |-> TRUE,  value |-> "bob"]
          [] t = "--username"       -> [name |-> "username",   hasValue |-> FALSE, value |-> ""]
          [] t = "--mode=utype"     -> [name |-> "mode",       hasValue |-> TRUE,  value |-> "utype"]
          [] t = "--offset"         -> [name |-> "offset",     hasValue |-> FALSE, value |-> ""]
          [] t = "--server=main"    -> [name |-> "server",     hasValue |-> TRUE,  value |-> "main"]
          [] t = "--phone"          -> [name |-> "phone",      hasValue |-> FALSE, value |-> ""]
          [] t = "--email=bob"      -> [name |-> "email",      hasValue |-> TRUE,  value |-> "bob"]
          [] t = "--insecure"       -> [name |-> "insecure",   hasValue |-> FALSE, value |-> ""]
          [] t = "--query"          -> [name |-> "query",      hasValue |-> FALSE, value |-> ""]
          [] t = "--query=bob"      -> [name |-> "query",      hasValue |-> TRUE,  value |-> "bob"]
          [] t = "--exact"          -> [name |-> "exact",      hasValue |-> FALSE, value |-> ""]]

\* strconv.ParseInt on the value texts of the model; a text outside the
\* domain is not a number
IntText == [t \in {"0", "7", "5551234"} |->
              CASE t = "0" -> 0 [] t = "7" -> 7 [] t = "5551234" -> 5551234]

\* strconv.ParseBool
BoolText == [t \in {"true", "false", "1", "0"} |-> t \in {"true", "1"}]

StringFlag(def) == [kind |-> "string", def |-> def]
IntFlag  == [kind |-> "int",  def |-> "0"]
BoolFlag == [kind |-> "bool", def |-> "false"]

\* A flag's value is kept as the text given on the command line; the typed
\* reads below convert it the way the flag's Set method does.
IntOf(vals, name)  == IntText[vals[name]]
BoolOf(vals, name) == BoolText[vals[name]]

Defaults(defs) == [n \in DOMAIN defs |-> defs[n].def]

\* FlagSet.Parse(args) under flag.ExitOnError.  status "ok": parsing stopped
\* at the end or at the first non-flag argument (rest = FlagSet.Args());
\* "help": -h/-help was given and is not defined (the process exits 0);
\* "fail": the flag is not defined, has no value or a malformed one (the
\* process exits 2).  why names the message written to the diagnostic stream.
ParseResult(status, vals, rest, why) ==
    [status |-> status, vals |-> vals, rest |-> rest, why |-> why]

RECURSIVE ParseFrom(_, _, _)

\* a flag that takes a value: the value after "=", else the next argument
ParseValue(defs, name, hasValue, value, after, vals) ==
    IF ~hasValue THEN ParseResult("fail", vals, after, "flag needs an argument")
    ELSE IF defs[name].kind = "int" /\ value \notin DOMAIN IntText
    THEN ParseResult("fail", vals, after, "invalid value")
    ELSE ParseFrom(defs, after, [vals EXCEPT ![name] = value])

\* FlagSet.parseOne on an argument that starts with "-"
ParseOne(defs, fs, more, vals) ==
    IF fs.name \notin DOMAIN defs
    THEN IF fs.name \in {"help", "h"}
         THEN ParseResult("help", vals, more, "flag: help requested")
         ELSE ParseResult("fail", vals, more, "flag provided but not defined")
    ELSE IF defs[fs.name].kind = "bool"
    THEN IF ~fs.hasValue
         THEN ParseFrom(defs, more, [vals EXCEPT ![fs.name] = "true"])
         ELSE IF fs.value \in DOMAIN BoolText
         THEN ParseFrom(defs, more, [vals EXCEPT ![fs.name] = fs.value])
         ELSE ParseResult("fail", vals, more, "invalid boolean value")
    ELSE IF fs.hasValue
    THEN ParseValue(defs, fs.name, TRUE, fs.value, more, vals)
    ELSE IF more # <<>>
    THEN ParseValue(defs, fs.name, TRUE, Head(more), Tail(more), vals)
    ELSE ParseValue(defs, fs.name, FALSE, "", more, vals)

ParseFrom(defs, args, vals) ==
    IF args = <<>> THEN ParseResult("ok", vals, <<>>, "")
    ELSE IF Head(args) \notin DOMAIN FlagSyntax
    THEN ParseResult("ok", vals, args, "")
    ELSE ParseOne(defs, FlagSyntax[Head(args)], Tail(args), vals)

Parse(defs, args) == ParseFrom(defs, args, Defaults(defs))

\* A FlagSet on which no flag has been defined (yet).
NoFlags == [n \in {} |-> StringFlag("")]

-----------------------------------------------------------------------------
(* os.Args.                                                                *)

\* os.Args[k]
Arg(args, k) == args[k + 1]
\* len(os.Args)
NArgs(args) == Len(args)
\* os.Args[k:]
From(args, k) == SubSeq(args, k + 1, Len(args))

-----------------------------------------------------------------------------
(* The flags each handler defines.                                         *)

TwitterFlags == [n \in {"handle", "id", "by-old"} |->
    CASE n = "handle" -> StringFlag("") [] n = "id" -> IntFlag [] n = "by-old" -> BoolFlag]

YouTubeCommentsFlags == [n \in {"user-id", "handle", "channel-id", "offset"} |->
    IF n = "offset" THEN IntFlag ELSE StringFlag("")]

YouTubeRepliesFlags == [n \in {"comment-id"} |-> StringFlag("")]

TwitchMessagesFlags == [n \in {"username", "server", "offset"} |->
    CASE n = "username" -> StringFlag("")
      [] n = "server"   -> StringFlag("superserver2")
      [] n = "offset"   -> IntFlag]

UsernameOffsetFlags == [n \in {"username", "offset"} |->
    IF n = "offset" THEN IntFlag ELSE StringFlag("")]

TwitchHistoryFlags == [n \in {"username", "mode"} |-> StringFlag("")]

UsernameFlags == [n \in {"username"} |-> StringFlag("")]

ReversePhoneFlags == [n \in {"phone", "insecure"} |->
    IF n = "insecure" THEN BoolFlag ELSE StringFlag("")]

ReverseEmailFlags == [n \in {"email", "insecure"} |->
    IF n = "insecure" THEN BoolFlag ELSE StringFlag("")]

DatabaseFlags == [n \in {"query", "exact"} |->
    IF n = "exact" THEN BoolFlag ELSE StringFlag("")]

-----------------------------------------------------------------------------
(* What main and the handlers do before the first credential load: the     *)
(* result is either the exit of the process (code, lines printed, events   *)
(* on the diagnostic stream) or the operation to run with its flag values. *)

version == "1.0.0"

printUsage ==
    << <<"LoLArchiver CLI - A command-line interface for LoLArchiver API">>,
       <<>>, <<"Usage:">>,
       <<"  lolarchiver-cli [command] [options]">>,
       <<>>, <<"Commands:">>,
       <<"  credits     Check remaining API credits">>,
       <<"  youtube     YouTube-related operations">>,
       <<"  twitter     Twitter-related operations">>,
       <<"  twitch      Twitch-related operations">>,
       <<"  kick        Kick-related operations">>,
       <<"  reverse     Reverse lookup operations (email/phone)">>,
       <<"  database    Database search operations">>,
       <<"  config      Configuration operations">>,
       <<"  version     Show version information">>,
       <<"  help        Show this help message">>,
       <<>>,
       <<"Use 'lolarchiver-cli [command] --help' for more information about a command">> >>

Exit(code, out, err) ==
    [kind |-> "exit", code |-> code, out |-> out, err |-> err,
     op |-> "none", vals |-> EmptyMap]

Run(o, vals) ==
    [kind |-> "run", code |-> -1, out |-> <<>>, err |-> <<>>, op |-> o, vals |-> vals]

\* FlagSet.PrintDefaults writes to the flag set's output, the diagnostic stream
PrintDefaults(name) == <<"PrintDefaults", name>>

\* flag.ExitOnError: Parse itself ends the process, with 0 after -help and
\* with 2 after any other error, having written the error and the usage to
\* the diagnostic stream.  The handlers' own "if err != nil" after Parse is
\* never reached.
ExitOnError(name, p) ==
    IF p.status = "help"
    THEN Exit(0, <<>>, <<"Usage of", name>>)
    ELSE Exit(2, <<>>, <<p.why, "Usage of", name>>)

\* The handlers that take only --username (and --offset): parse, require the
\* username, go on to the operation.
RequireUsername(p, name, o) ==
    IF p.status # "ok" THEN ExitOnError(name, p)
    ELSE IF p.vals["username"] = ""
    THEN Exit(1, << <<"Error: username is required">> >>, PrintDefaults(name))
    ELSE Run(o, p.vals)

UsernameHandler(args, name, defs, o) ==
    RequireUsername(Parse(defs, From(args, 3)), name, o)

\* a Parse made by the caller on a flag set without flags, then the handler
AfterParse(p, name, handled) ==
    IF p.status # "ok" THEN ExitOnError(name, p) ELSE handled

handleCredits(args) == Run("credits", EmptyMap)

\* the flags are defined and read after commentsCmd.Parse was called
YouTubeCommentsRead(vals) ==
    IF vals["user-id"] = "" /\ vals["handle"] = "" /\ vals["channel-id"] = ""
    THEN Exit(1, << <<"Error: At least one of user-id, handle, or channel-id must be provided">> >>,
              PrintDefaults("comments"))
    ELSE Run("youtube_comments", vals)

handleYouTubeComments(args) == YouTubeCommentsRead(Defaults(YouTubeCommentsFlags))

YouTubeRepliesRead(vals) ==
    IF vals["comment-id"] = ""
    THEN Exit(1, << <<"Error: comment-id is required">> >>, PrintDefaults("replies"))
    ELSE Run("youtube_replies", vals)

handleYouTubeReplies(args) == YouTubeRepliesRead(Defaults(YouTubeRepliesFlags))

handleYouTube(args) ==
    IF NArgs(args) < 3
    THEN Exit(1, << <<"Expected 'comments' or 'replies' subcommand">> >>, <<>>)
    ELSE CASE Arg(args, 2) = "comments" ->
                AfterParse(Parse(NoFlags, From(args, 3)), "comments",
                           handleYouTubeComments(args))
           [] Arg(args, 2) = "replies" ->
                AfterParse(Parse(NoFlags, From(args, 3)), "replies",
                           handleYouTubeReplies(args))
           [] OTHER -> Exit(1, << <<"Unknown subcommand: ", Arg(args, 2)>> >>, <<>>)

TwitterParsed(p) ==
    IF p.status # "ok" THEN ExitOnError("twitter", p)
    ELSE IF p.vals["handle"] = "" /\ IntOf(p.vals, "id") = 0
    THEN Exit(1, << <<"Error: Either handle or id must be provided">> >>,
              PrintDefaults("twitter"))
    ELSE Run("twitter", p.vals)

\* main, case "twitter", up to the start of its indicator goroutine
handleTwitter(args) == TwitterParsed(Parse(TwitterFlags, From(args, 2)))

handleTwitchMessages(args) ==
    UsernameHandler(args, "messages", TwitchMessagesFlags, "twitch_messages")
handleTwitchTimeouts(args) ==
    UsernameHandler(args, "timeouts", UsernameOffsetFlags, "twitch_timeouts")
handleTwitchHistory(args) ==
    UsernameHandler(args, "history", TwitchHistoryFlags, "twitch_history")
handleTwitchFollowage(args) ==
    UsernameHandler(args, "followage", UsernameFlags, "twitch_followage")
handleTwitchFollowers(args) ==
    UsernameHandler(args, "followers", UsernameFlags, "twitch_followers")

handleTwitch(args) ==
    IF NArgs(args) < 3
    THEN Exit(1, << <<"Expected 'messages', 'timeouts', 'history', 'followage', or 'followers' subcommand">> >>, <<>>)
    ELSE CASE Arg(args, 2) = "messages"  -> handleTwitchMessages(args)
           [] Arg(args, 2) = "timeouts"  -> handleTwitchTimeouts(args)
           [] Arg(args, 2) = "history"   -> handleTwitchHistory(args)
           [] Arg(args, 2) = "followage" -> handleTwitchFollowage(args)
           [] Arg(args, 2) = "followers" -> handleTwitchFollowers(args)
           [] OTHER -> Exit(1, << <<"Unknown subcommand: ", Arg(args, 2)>> >>, <<>>)

handleKickMessages(args) ==
    UsernameHandler(args, "messages", UsernameOffsetFlags, "kick_messages")
handleKickTimeouts(args) ==
    UsernameHandler(args, "timeouts", UsernameFlags, "kick_timeouts")
handleKickMods(args) ==
    UsernameHandler(args, "mods", UsernameFlags, "kick_mods")
handleKickSubscribers(args) ==
    UsernameHandler(args, "subscribers", UsernameFlags, "kick_subscribers")

handleKick(args) ==
    IF NArgs(args) < 3
    THEN Exit(1, << <<"Expected 'messages', 'timeouts', 'mods', or 'subscribers' subcommand">> >>, <<>>)
    ELSE CASE Arg(args, 2) = "messages"    -> handleKickMessages(args)
           [] Arg(args, 2) = "timeouts"    -> handleKickTimeouts(args)
           [] Arg(args, 2) = "mods"        -> handleKickMods(args)
           [] Arg(args, 2) = "subscribers" -> handleKickSubscribers(args)
           [] OTHER -> Exit(1, << <<"Unknown subcommand: ", Arg(args, 2)>> >>, <<>>)

\* the value of a required flag, or the first positional argument when the
\* flag was not given
FlagOrFirstArg(p, name) ==
    IF p.vals[name] = "" /\ Len(p.rest) > 0 THEN p.rest[1] ELSE p.vals[name]

ReversePhoneParsed(p) ==
    IF p.status # "ok" THEN ExitOnError("phone", p)
    ELSE IF FlagOrFirstArg(p, "phone") = ""
    THEN Exit(1, << <<"Error: phone is required">> >>, PrintDefaults("phone"))
    ELSE Run("reverse_phone", [p.vals EXCEPT !["phone"] = FlagOrFirstArg(p, "phone")])

\* handleReversePhone up to the start of its indicator goroutine.  The caller
\* has already parsed os.Args[3:] on the same flag set before any flag was
\* defined on it; the handler defines the flags and parses again.
handleReversePhone(args) == ReversePhoneParsed(Parse(ReversePhoneFlags, From(args, 3)))

\* handleReverseEmail defines its flags and reads them without parsing
ReverseEmailRead(vals) ==
    IF vals["email"] = ""
    THEN Exit(1, << <<"Error: email is required">> >>, PrintDefaults("email"))
    ELSE Run("reverse_email", vals)

handleReverseEmail(args) == ReverseEmailRead(Defaults(ReverseEmailFlags))

handleReverse(args) ==
    IF NArgs(args) < 3
    THEN Exit(1, << <<"Expected 'phone' or 'email' subcommand">> >>, <<>>)
    ELSE CASE Arg(args, 2) = "phone" ->
                AfterParse(Parse(NoFlags, From(args, 3)), "phone", handleReversePhone(args))
           [] Arg(args, 2) = "email" ->
                AfterParse(Parse(NoFlags, From(args, 3)), "email", handleReverseEmail(args))
           [] OTHER -> Exit(1, << <<"Unknown subcommand: ", Arg(args, 2)>> >>, <<>>)

DatabaseParsed(p) ==
    IF p.status # "ok" THEN ExitOnError("database", p)
    ELSE IF FlagOrFirstArg(p, "query") = ""
    THEN Exit(1, << <<"Error: query is required">> >>, PrintDefaults("database"))
    ELSE Run("database", [p.vals EXCEPT !["query"] = FlagOrFirstArg(p, "query")])

\* handleDatabase up to the start of its indicator goroutine
handleDatabase(args) == DatabaseParsed(Parse(DatabaseFlags, From(args, 2)))

\* setAPIKeyCmd.Arg(0)
Arg0(p) == IF Len(p.rest) > 0 THEN p.rest[1] ELSE ""

SetAPIKeyParsed(p) ==
    IF p.status # "ok" THEN ExitOnError("set-api-key", p)
    ELSE IF Arg0(p) = ""
    THEN Exit(1, << <<"Error: API key is required">> >>, PrintDefaults("set-api-key"))
    ELSE Run("set-api-key", [n \in {"key"} |-> Arg0(p)])

\* handleConfig up to the call of config.SetAPIKey
handleConfig(args) ==
    IF NArgs(args) < 3
    THEN Exit(1, << <<"Expected 'set-api-key' subcommand">> >>, <<>>)
    ELSE IF Arg(args, 2) = "set-api-key"
    THEN SetAPIKeyParsed(Parse(NoFlags, From(args, 3)))
    ELSE Exit(1, << <<"Unknown subcommand: ", Arg(args, 2)>> >>, <<>>)

\* main's own Parse of os.Args[2:] on a flag set with no flags, then the handler
PreParsed(args, name, handled) ==
    AfterParse(Parse(NoFlags, From(args, 2)), name, handled)

main(args) ==
    IF NArgs(args) < 2 THEN Exit(1, printUsage, <<>>)
    ELSE CASE Arg(args, 1) = "credits"  -> PreParsed(args, "credits", handleCredits(args))
           [] Arg(args, 1) = "youtube"  -> PreParsed(args, "youtube", handleYouTube(args))
           [] Arg(args, 1) = "twitter"  -> handleTwitter(args)
           [] Arg(args, 1) = "twitch"   -> handleTwitch(args)
           [] Arg(args, 1) = "kick"     -> handleKick(args)
           [] Arg(args, 1) = "reverse"  -> PreParsed(args, "reverse", handleReverse(args))
           [] Arg(args, 1) = "database" -> handleDatabase(args)
           [] Arg(args, 1) = "config"   -> PreParsed(args, "config", handleConfig(args))
           [] Arg(args, 1) = "version"  -> Exit(0, << <<"LoLArchiver CLI v", version>> >>, <<>>)
           [] Arg(args, 1) = "help"     -> Exit(0, printUsage, <<>>)
           [] OTHER -> Exit(1, << <<"Unknown command: ", Arg(args, 1)>> >> \o printUsage, <<>>)

-----------------------------------------------------------------------------
(* package config: the credential store.                                   *)

\* The states of ~/.lolarchiver/config.json: no home directory, no file, a
\* file that cannot be read, a file that is not JSON, a file holding a key
\* (possibly the empty one).
Store(st, key) == [st |-> st, key |-> key]

Stores ==
    {Store("nohome", ""), Store("missing", ""), Store("unreadable", ""),
     Store("unparsable", ""), Store("ok", ""), Store("ok", "k1")}

Wrapped(msg, cause) == <<msg, cause>>

\* config.Load
Load(s) ==
    CASE s.st = "nohome" ->
            [ok |-> FALSE, APIKey |-> "",
             err |-> Wrapped("failed to get user home directory: ", "$HOME is not defined")]
      [] s.st = "missing" ->
            [ok |-> TRUE, APIKey |-> "", err |-> <<>>]
      [] s.st = "unreadable" ->
            [ok |-> FALSE, APIKey |-> "",
             err |-> Wrapped("failed to read config file: ", "permission denied")]
      [] s.st = "unparsable" ->
            [ok |-> FALSE, APIKey |-> "",
             err |-> Wrapped("failed to parse config file: ", "unexpected end of JSON input")]
      [] OTHER ->
            [ok |-> TRUE, APIKey |-> s.key, err |-> <<>>]

\* GetAPIKey without its check for the empty key
GetAPIKeyUnchecked(s) ==
    [ok |-> Load(s).ok, APIKey |-> Load(s).APIKey, err |-> Load(s).err]

\* config.GetAPIKey
GetAPIKey(s) ==
    LET config == Load(s) IN
    IF ~config.ok THEN [ok |-> FALSE, APIKey |-> "", err |-> config.err]
    ELSE IF config.APIKey = ""
    THEN [ok |-> FALSE, APIKey |-> "",
          err |-> <<"API key not set. Use 'lolarchiver-cli config set-api-key' to set it">>]
    ELSE [ok |-> TRUE, APIKey |-> config.APIKey, err |-> <<>>]

\* config.Save: what the file system lets it do.  "written": the file now
\* holds the configuration; "mkdir": MkdirAll failed; "open": WriteFile could
\* not open the file; "short": WriteFile truncated the file and failed while
\* writing, leaving a file that is not JSON.
SaveOutcomes(s) ==
    IF s.st = "nohome" THEN {"nohome"} ELSE {"written", "mkdir", "open", "short"}

Save(s, key, outcome) ==
    CASE outcome = "written" ->
            [ok |-> TRUE, store |-> Store("ok", key), err |-> <<>>]
      [] outcome = "nohome" ->
            [ok |-> FALSE, store |-> s,
             err |-> Wrapped("failed to get user home directory: ", "$HOME is not defined")]
      [] outcome = "mkdir" ->
            [ok |-> FALSE, store |-> s,
             err |-> Wrapped("failed to create config directory: ", "permission denied")]
      [] outcome = "open" ->
            [ok |-> FALSE, store |-> s,
             err |-> Wrapped("failed to write config file: ", "permission denied")]
      [] OTHER ->
            [ok |-> FALSE, store |-> Store("unparsable", ""),
             err |-> Wrapped("failed to write config file: ", "no space left on device")]

\* SetAPIKey that goes on to Save when Load failed
SetAPIKeyIgnoringLoad(s, key, outcome) == Save(s, key, outcome)

\* config.SetAPIKey
SetAPIKey(s, key, outcome) ==
    LET config == Load(s) IN
    IF ~config.ok THEN [ok |-> FALSE, store |-> s, err |-> config.err]
    ELSE Save(s, key, outcome)

-----------------------------------------------------------------------------
(* package api: the catalog.                                               *)

baseURL == "https://api.lolarchiver.com"

\* a value of a Go map[string]interface{} or map[string]string
GoInt(n)    == [go |-> "int",    text |-> ToString(n)]
GoString(s) == [go |-> "string", text |-> s]

NoBody == [k \in {} |-> GoString("")]

\* api.Request; HasBody is Body != nil
Request(path, headers, hasBody, body) ==
    [Method |-> "POST", Path |-> path, Headers |-> headers,
     HasBody |-> hasBody, Body |-> body]

\* m[k] = v on a Go map
Put(m, k, v) == (k :> v) @@ m

CheckCredits == Request("/credits_left", EmptyMap, FALSE, NoBody)

YouTubeUserComments(userID, handle, channelID, offset) ==
    LET b0 == Put(NoBody, "offset", GoInt(offset))
        b1 == IF userID # "" THEN Put(b0, "user_id", GoString(userID)) ELSE b0
        b2 == IF handle # "" THEN Put(b1, "handle", GoString(handle)) ELSE b1
        b3 == IF channelID # "" THEN Put(b2, "channel_id", GoString(channelID)) ELSE b2
    IN  Request("/youtube/user_all_comments", EmptyMap, TRUE, b3)

YouTubeCommentReplies(commentID) ==
    Request("/youtube/comment_replies", EmptyMap, TRUE,
            Put(NoBody, "comment_id", GoString(commentID)))

ReversePhoneLookup(phone, insecureMode) ==
    LET h0 == Put(EmptyMap, "phone", phone)
        h1 == IF insecureMode THEN Put(h0, "insecuremode", "true") ELSE h0
    IN  Request("/reverse_phone_lookup", h1, FALSE, NoBody)

ReverseEmailLookup(email, insecureMode) ==
    LET h0 == Put(EmptyMap, "email", email)
        h1 == IF insecureMode THEN Put(h0, "insecuremode", "true") ELSE h0
    IN  Request("/reverse_email_lookup", h1, FALSE, NoBody)

TwitterHistoryLookup(handle, id, byOld) ==
    LET h1 == IF handle # "" THEN Put(EmptyMap, "handle", handle) ELSE EmptyMap
        h2 == IF id # 0 THEN Put(h1, "id", ToString(id)) ELSE h1
        h3 == IF byOld THEN Put(h2, "byold", "true") ELSE h2
    IN  Request("/twitter_history_lookup", h3, FALSE, NoBody)

DatabaseLookup(query, exact) ==
    LET h0 == Put(EmptyMap, "query", query)
        h1 == IF exact THEN Put(h0, "exact", "true") ELSE h0
    IN  Request("/database_lookup", h1, FALSE, NoBody)

TwitchUserMessages(username, server, offset) ==
    Request("/twitch/user_all_messages",
            Put(Put(Put(EmptyMap, "username", username), "server", server),
                "offset", ToString(offset)),
            FALSE, NoBody)

TwitchUserTimeouts(username, offset) ==
    Request("/twitch/user_all_timeouts",
            Put(Put(EmptyMap, "username", username), "offset", ToString(offset)),
            FALSE, NoBody)

TwitchUserHistory(username, mode) ==
    Request("/twitch/user_history",
            Put(Put(EmptyMap, "username", username), "mode", mode),
            FALSE, NoBody)

TwitchFollowage(username) ==
    Request("/twitch/followage", Put(EmptyMap, "username", username), FALSE, NoBody)

\* TwitchFollowers sent to the path of the method above it
TwitchFollowersAsFollowage(username) == TwitchFollowage(username)

TwitchFollowers(username) ==
    Request("/twitch/followers", Put(EmptyMap, "username", username), FALSE, NoBody)

KickUserMessages(username, offset) ==
    Request("/kick/user_all_messages",
            Put(Put(EmptyMap, "username", username), "offset", ToString(offset)),
            FALSE, NoBody)

KickUserTimeouts(username) ==
    Request("/kick/user_all_timeouts", Put(EmptyMap, "username", username), FALSE, NoBody)

KickUserModChannels(username) ==
    Request("/kick/user_channel_mods_in", Put(EmptyMap, "username", username), FALSE, NoBody)

KickUserSubscribers(username) ==
    Request("/kick/user_subscribers_list", Put(EmptyMap, "username", username), FALSE, NoBody)

\* The catalog call each handler makes with its flag values.
CatalogCall(o, v) ==
    CASE o = "credits"          -> CheckCredits
      [] o = "youtube_comments" ->
            YouTubeUserComments(v["user-id"], v["handle"], v["channel-id"], IntOf(v, "offset"))
      [] o = "youtube_replies"  -> YouTubeCommentReplies(v["comment-id"])
      [] o = "reverse_phone"    -> ReversePhoneLookup(v["phone"], BoolOf(v, "insecure"))
      [] o = "reverse_email"    -> ReverseEmailLookup(v["email"], BoolOf(v, "insecure"))
      [] o = "twitter"          ->
            TwitterHistoryLookup(v["handle"], IntOf(v, "id"), BoolOf(v, "by-old"))
      [] o = "database"         -> DatabaseLookup(v["query"], BoolOf(v, "exact"))
      [] o = "twitch_messages"  ->
            TwitchUserMessages(v["username"], v["server"], IntOf(v, "offset"))
      [] o = "twitch_timeouts"  -> TwitchUserTimeouts(v["username"], IntOf(v, "offset"))
      [] o = "twitch_history"   -> TwitchUserHistory(v["username"], v["mode"])
      [] o = "twitch_followage" -> TwitchFollowage(v["username"])
      [] o = "twitch_followers" -> TwitchFollowers(v["username"])
      [] o = "kick_messages"    -> KickUserMessages(v["username"], IntOf(v, "offset"))
      [] o = "kick_timeouts"    -> KickUserTimeouts(v["username"])
      [] o = "kick_mods"        -> KickUserModChannels(v["username"])
      [] OTHER                  -> KickUserSubscribers(v["username"])

-----------------------------------------------------------------------------
(* Client.Do: building the request.                                        *)

\* textproto.CanonicalMIMEHeaderKey on the header names in use
CanonicalHeaderKey(k) ==
    CASE k = "apikey"       -> "Apikey"
      [] k = "phone"        -> "Phone"
      [] k = "insecuremode" -> "Insecuremode"
      [] k = "email"        -> "Email"
      [] k = "handle"       -> "Handle"
      [] k = "id"           -> "Id"
      [] k = "byold"        -> "Byold"
      [] k = "query"        -> "Query"
      [] k = "exact"        -> "Exact"
      [] k = "username"     -> "Username"
      [] k = "server"       -> "Server"
      [] k = "offset"       -> "Offset"
      [] k = "mode"         -> "Mode"
      [] OTHER              -> k

\* http.Header.Set
HeaderSet(h, k, v) == (CanonicalHeaderKey(k) :> v) @@ h

\* http.Header.Get and presence of a header, by its name in any case
HeaderGet(h, k) == h[CanonicalHeaderKey(k)]
HasHeader(h, k) == CanonicalHeaderKey(k) \in DOMAIN h

\* DefaultHeaders without the line that sets apikey
DefaultHeadersNoKey(key) ==
    HeaderSet(EmptyMap, "Content-Type", "application/json")

\* "Set default headers": Content-Type, then apikey
DefaultHeaders(key) ==
    HeaderSet(HeaderSet(EmptyMap, "Content-Type", "application/json"), "apikey", key)

\* "Set custom headers": for key, value := range req.Headers
RECURSIVE SetCustomHeaders(_, _)
SetCustomHeaders(h, custom) ==
    IF DOMAIN custom = {} THEN h
    ELSE LET k == CHOOSE x \in DOMAIN custom : TRUE
             others == [x \in DOMAIN custom \ {k} |-> custom[x]]
         IN  SetCustomHeaders(HeaderSet(h, k, custom[k]), others)

\* json.Marshal writes the keys of a map in sorted order
SortedKeys == <<"channel_id", "comment_id", "handle", "offset", "user_id">>

\* json.Marshal fails on no value of these two map types
MarshalOK(body) == \A k \in DOMAIN body : body[k].go \in {"int", "string"}

\* json.Marshal of the body: the members of the JSON object, in order
Marshal(body) ==
    LET keys == SelectSeq(SortedKeys, LAMBDA k : k \in DOMAIN body)
    IN  [i \in 1..Len(keys) |->
            [name |-> keys[i],
             json |-> IF body[keys[i]].go = "int" THEN "number" ELSE "string",
             text |-> body[keys[i]].text]]

\* http.NewRequest fails on an invalid method or a URL that does not parse
NewRequestOK(method, path) ==
    /\ method \in {"GET", "HEAD", "POST", "PUT", "PATCH", "DELETE"}
    /\ path \notin {"%", ":"}

NoRequest ==
    [built |-> FALSE, Method |-> "", URL |-> <<>>, Header |-> EmptyMap,
     HasBody |-> FALSE, Body |-> <<>>]

\* the *http.Request as Client.Do hands it to the transport
HTTPRequest(key, req) ==
    [built   |-> TRUE,
     Method  |-> req.Method,
     URL     |-> <<baseURL, req.Path>>,
     Header  |-> SetCustomHeaders(DefaultHeaders(key), req.Headers),
     HasBody |-> req.HasBody,
     Body    |-> IF req.HasBody THEN Marshal(req.Body) ELSE <<>>]

NoResult == [kind |-> "none", StatusCode |-> 0, Body |-> <<>>, err |-> <<>>]

Response(status, body) == [kind |-> "ok", StatusCode |-> status, Body |-> body, err |-> <<>>]

Failed(msg, cause) ==
    [kind |-> "err", StatusCode |-> 0, Body |-> <<>>, err |-> Wrapped(msg, cause)]

-----------------------------------------------------------------------------
(* encoding/json on a response body, token by token.                       *)

JsonPunct   == {"{", "}", "[", "]", ":", ","}
JsonStrings == {"\"a\""}
JsonScalars == {"1"}
\* "x" stands for text that is no JSON token
JsonTokens  == JsonPunct \cup JsonStrings \cup JsonScalars \cup {"x"}

\* appendNewline(dst, "", "  ", depth)
RECURSIVE Spaces(_)
Spaces(depth) == IF depth <= 0 THEN <<>> ELSE <<"  ">> \o Spaces(depth - 1)
Newline(depth) == <<"\n">> \o Spaces(depth)

\* the scanner state after a complete value, inside the innermost container
AfterValue(stack) ==
    IF stack = <<>> THEN "end"
    ELSE IF Last(stack) = "{" THEN "objectValue" ELSE "arrayValue"

Pop(stack) == SubSeq(stack, 1, Len(stack) - 1)

\* scanner.step on one token: the next state and container stack, or "error"
ScanStep(state, stack, c) ==
    LET Err == [state |-> "error", stack |-> stack]
        Value ==
            CASE c = "{" -> [state |-> "beginStringOrEmpty", stack |-> Append(stack, "{")]
              [] c = "[" -> [state |-> "beginValueOrEmpty",  stack |-> Append(stack, "[")]
              [] c \in JsonStrings \cup JsonScalars ->
                            [state |-> AfterValue(stack), stack |-> stack]
              [] OTHER   -> Err
        Close == [state |-> AfterValue(Pop(stack)), stack |-> Pop(stack)]
    IN
    CASE state = "beginValue"         -> Value
      [] state = "beginValueOrEmpty"  -> IF c = "]" THEN Close ELSE Value
      [] state = "beginStringOrEmpty" ->
            IF c = "}" THEN Close
            ELSE IF c \in JsonStrings THEN [state |-> "objectKey", stack |-> stack] ELSE Err
      [] state = "beginString"        ->
            IF c \in JsonStrings THEN [state |-> "objectKey", stack |-> stack] ELSE Err
      [] state = "objectKey"          ->
            IF c = ":" THEN [state |-> "beginValue", stack |-> stack] ELSE Err
      [] state = "objectValue"        ->
            IF c = "," THEN [state |-> "beginString", stack |-> stack]
            ELSE IF c = "}" THEN Close ELSE Err
      [] state = "arrayValue"         ->
            IF c = "," THEN [state |-> "beginValue", stack |-> stack]
            ELSE IF c = "]" THEN Close ELSE Err
      [] OTHER                        -> Err

\* json.Indent(dst, src, "", "  "): the loop of appendIndent
RECURSIVE IndentFrom(_, _, _, _, _, _)
IndentFrom(src, state, stack, needIndent, depth, dst) ==
    IF src = <<>>
    THEN [ok |-> state = "end", out |-> dst]
    ELSE
      LET c  == Head(src)
          v  == ScanStep(state, stack, c)
          \* the delayed indent after an opening bracket
          indentNow == needIndent /\ c \notin {"}", "]"}
          depth1 == IF indentNow THEN depth + 1 ELSE depth
          dst1   == IF indentNow THEN dst \o Newline(depth1) ELSE dst
          need1  == IF indentNow THEN FALSE ELSE needIndent
      IN
      IF v.state = "error" THEN [ok |-> FALSE, out |-> dst]
      ELSE
        CASE c \in {"{", "["} ->
                IndentFrom(Tail(src), v.state, v.stack, TRUE, depth1, Append(dst1, c))
          [] c = "," ->
                IndentFrom(Tail(src), v.state, v.stack, need1, depth1,
                           Append(dst1, c) \o Newline(depth1))
          [] c = ":" ->
                IndentFrom(Tail(src), v.state, v.stack, need1, depth1,
                           dst1 \o <<c, " ">>)
          [] c \in {"}", "]"} ->
                IF need1
                THEN IndentFrom(Tail(src), v.state, v.stack, FALSE, depth1, Append(dst1, c))
                ELSE IndentFrom(Tail(src), v.state, v.stack, FALSE, depth1 - 1,
                                Append(dst1 \o Newline(depth1 - 1), c))
          [] OTHER ->
                IndentFrom(Tail(src), v.state, v.stack, need1, depth1, Append(dst1, c))

Indent(src) == IndentFrom(src, "beginValue", <<>>, FALSE, 0, <<>>)

-----------------------------------------------------------------------------
(* What the handlers print once Client.Do has returned a response.         *)

\* fmt.Println(string(resp.Body)): the handlers of the raw endpoints
PrintBody(resp) == << resp.Body >>

\* main, case "twitter"
PrintTwitter(resp) ==
    IF Len(resp.Body) = 0 THEN << <<"No data found">> >> ELSE << resp.Body >>

\* case 200 of both switch statements
PrintFound(resp, nothing) ==
    IF Len(resp.Body) = 0 \/ resp.Body = <<"[", "]">>
    THEN << <<nothing>> >>
    ELSE LET prettyJSON == Indent(resp.Body) IN
         IF prettyJSON.ok THEN << prettyJSON.out >> ELSE << resp.Body >>

\* the default case of both switch statements
PrintUnexpected(resp) ==
    << <<"Error: Unexpected response (Status ", ToString(resp.StatusCode), ")">> >>
    \o (IF Len(resp.Body) > 0 THEN << resp.Body >> ELSE <<>>)

SetKeyLines ==
    << <<"Error: Unauthorized - Please set your API key using:">>,
       <<"  ./lolarchiver-cli config set-api-key YOUR_API_KEY">> >>

PhoneWebOnly ==
    << <<"Error: Phone lookup is only available through the web interface or you exceeded rate limit for today/this month.">>,
       <<"Please visit https://lolarchiver.com to use this feature.">> >>

DatabaseWebOnly ==
    << <<"Error: Database lookup is only available through the web interface or you exceeded rate limit for today/this month.">>,
       <<"Please visit https://lolarchiver.com to use this feature.">> >>

\* the switch on resp.StatusCode of handleReversePhone
PrintPhone(resp, configAPIKey) ==
    CASE resp.StatusCode = 200 -> PrintFound(resp, "No data found for this phone number")
      [] resp.StatusCode = 401 -> IF configAPIKey = "" THEN SetKeyLines ELSE PhoneWebOnly
      [] resp.StatusCode = 402 -> PhoneWebOnly
      [] resp.StatusCode = 403 ->
            << <<"Error: Your current plan does not support phone lookup or you exceeded rate limit for today/this month.">>,
               <<"Please upgrade your plan or use the web interface at https://lolarchiver.com">> >>
      [] resp.StatusCode = 404 -> << <<"Error: No results found for this phone number">> >>
      [] resp.StatusCode = 405 -> << <<"Error: Phone number is too long">> >>
      [] resp.StatusCode = 406 -> << <<"Error: Phone number format is incorrect">> >>
      [] resp.StatusCode = 415 -> << <<"Error: Owner requested these results to be hidden">> >>
      [] resp.StatusCode = 416 ->
            << <<"Error: You have exhausted all credits. Credits refresh in 24 hours">> >>
      [] resp.StatusCode = 500 -> << <<"Error: Internal server error">> >>
      [] OTHER -> PrintUnexpected(resp)

\* PrintDatabase with the cases of the phone handler
PrintDatabaseAsPhone(resp, configAPIKey) == PrintPhone(resp, configAPIKey)

\* the switch on resp.StatusCode of handleDatabase
PrintDatabase(resp, configAPIKey) ==
    CASE resp.StatusCode = 200 -> PrintFound(resp, "No data found for this query")
      [] resp.StatusCode = 401 -> IF configAPIKey = "" THEN SetKeyLines ELSE DatabaseWebOnly
      [] resp.StatusCode = 402 -> DatabaseWebOnly
      [] resp.StatusCode = 403 ->
            << <<"Error: Your current plan does not support database lookup or you exceeded rate limit for today/this month.">>,
               <<"Please upgrade your plan or use the web interface at https://lolarchiver.com">> >>
      [] resp.StatusCode = 404 -> << <<"Error: No results found for this query">> >>
      [] resp.StatusCode = 416 ->
            << <<"Error: You have exhausted all credits. Credits refresh in 24 hours">> >>
      [] resp.StatusCode = 500 -> << <<"Error: Internal server error">> >>
      [] OTHER -> PrintUnexpected(resp)

\* fmt.Printf("Error: %v\n", err)
PrintError(err) == << <<"Error: ">> \o err >>

\* fmt.Printf("\nError: %v\n", err)
PrintErrorOnNewLine(err) == << <<>>, <<"Error: ">> \o err >>

-----------------------------------------------------------------------------
(* The invocations and the remote service the model enumerates.            *)

Commands == {"credits", "youtube", "twitter", "twitch", "kick", "reverse",
             "database", "config", "version", "help", "nosuch"}

SubCommands(c) ==
    CASE c = "youtube" -> {"comments", "replies"}
      [] c = "twitch"  -> {"messages", "timeouts", "history", "followage", "followers"}
      [] c = "kick"    -> {"messages", "timeouts", "mods", "subscribers"}
      [] c = "reverse" -> {"phone", "email"}
      [] c = "config"  -> {"set-api-key"}
      [] OTHER         -> {}

\* the arguments tried after each command
ArgTokens(c) ==
    CASE c = "credits"  -> {"--bogus", "--help", "bob"}
      [] c = "youtube"  -> {"--user-id=bob", "--handle=bob", "--offset=7", "--comment-id=bob",
                            "--bogus", "--help", "bob"}
      [] c = "twitter"  -> {"--handle=bob", "--id=7", "--id=0", "--by-old", "--bogus", "bob"}
      [] c = "twitch"   -> {"--username=bob", "--username", "--offset=7", "--mode=utype",
                            "--server=main", "--bogus", "--help", "bob"}
      [] c = "kick"     -> {"--username=bob", "--offset=7", "--offset", "--bogus", "bob"}
      [] c = "reverse"  -> {"--phone", "5551234", "--insecure", "--email=bob", "--bogus",
                            "--help"}
      [] c = "database" -> {"--query", "--query=bob", "--exact", "--bogus", "bob"}
      [] c = "config"   -> {"newkey", "--bogus"}
      [] OTHER          -> {}

Program == "lolarchiver-cli"

Invocations ==
    {<<Program>>}
    \cup {<<Program, c>> : c \in Commands}
    \cup UNION {
           {<<Program, c, w>> \o t :
                w \in SubCommands(c) \cup ArgTokens(c),
                t \in SeqsUpTo(ArgTokens(c), MaxArgs)} : c \in Commands}

\* the status codes the remote service answers with
StatusCodes == {200, 201, 401, 402, 403, 404, 405, 406, 415, 416, 418, 500}

\* bodies of a served response
ServedBodies ==
    {<<>>, <<"[", "]">>, <<"x">>, <<"{", "\"a\"", ":", "1", "}">>}

\* the responses the remote service gives in a run of the whole program
Served ==
    {Response(200, b) : b \in ServedBodies}
    \cup {Response(c, <<"x">>) : c \in StatusCodes \ {200}}
    \cup {Response(c, <<>>) : c \in {401, 418}}

\* what c.client.Do(httpReq) and io.ReadAll(resp.Body) can come back with
TransportOutcomes ==
    Served
    \cup {Failed("failed to perform request: ", "dial tcp: connection refused"),
          Failed("failed to read response body: ", "unexpected EOF")}

\* the handlers that start an indicator goroutine of their own
IndicatorOps == {"twitter", "reverse_phone", "database"}

\* the handlers that call config.Load() themselves before getClient()
ConfigLoadOps == {"reverse_phone", "database"}

CatalogOps ==
    {"credits", "youtube_comments", "youtube_replies", "reverse_phone", "reverse_email",
     "twitter", "database", "twitch_messages", "twitch_timeouts", "twitch_history",
     "twitch_followage", "twitch_followers", "kick_messages", "kick_timeouts",
     "kick_mods", "kick_subscribers"}

-----------------------------------------------------------------------------
(* The process.                                                            *)

Init ==
    /\ osArgs \in Invocations
    /\ store \in Stores
    /\ pc = "main"
    /\ op = "none"
    /\ params = EmptyMap
    /\ cfgKey = ""
    /\ apiKey = ""
    /\ loads = 0
    /\ httpReq = NoRequest
    /\ httpCalls = 0
    /\ fault = ""
    /\ result = NoResult
    /\ outer = "none"
    /\ inner = "none"
    /\ stdout = <<>>
    /\ stderr = <<>>
    /\ exitCode = -1

\* os.Exit(code), or main returning (code 0), after the last writes
Exits(code, out, err) ==
    /\ pc' = "exited"
    /\ exitCode' = code
    /\ stdout' = stdout \o out
    /\ stderr' = stderr \o err

\* the repaints written so far
Repaints == Len(SelectSeq(stderr, LAMBDA e : e = "Processing"))

\* the main goroutine is at "done <- true" on the handler's channel
SendingOuter == pc = "hStop" \/ (pc = "returned" /\ op \in IndicatorOps)

\* the main goroutine is at "done <- true" on the channel of Client.Do
SendingInner == pc = "doStop"

\* the process after main and the handler have got to the exit (r.kind =
\* "exit") or to the operation to run
Routed(r) ==
    IF r.kind = "exit"
    THEN /\ Exits(r.code, r.out, r.err)
         /\ UNCHANGED <<op, params, outer>>
    ELSE /\ op' = r.op
         /\ params' = r.vals
         /\ outer' = IF r.op \in IndicatorOps THEN "select" ELSE "none"
         /\ pc' = CASE r.op = "set-api-key"     -> "setKey"
                    [] r.op \in ConfigLoadOps   -> "load"
                    [] OTHER                    -> "getClient"
         /\ UNCHANGED <<exitCode, stdout, stderr>>

\* main and the handler, up to the exit or to the first credential load;
\* the twitter, phone and database handlers start their goroutine here
Main ==
    /\ pc = "main"
    /\ Routed(main(osArgs))
    /\ UNCHANGED <<osArgs, store, cfgKey, apiKey, loads, httpReq, httpCalls, fault,
                   result, inner>>

\* config, err := config.Load() in handleReversePhone and handleDatabase
ConfigLoad ==
    /\ pc = "load"
    /\ loads' = loads + 1
    /\ LET config == Load(store) IN
       IF config.ok
       THEN /\ cfgKey' = config.APIKey
            /\ pc' = "getClient"
            /\ UNCHANGED result
       ELSE /\ result' = [NoResult EXCEPT !.kind = "err", !.err = config.err]
            /\ pc' = "hStop"
            /\ UNCHANGED cfgKey
    /\ UNCHANGED <<osArgs, store, op, params, apiKey, httpReq, httpCalls, fault,
                   outer, inner, stdout, stderr, exitCode>>

\* client, err := getClient() and the handler's "if err != nil"
GetClient ==
    /\ pc = "getClient"
    /\ loads' = loads + 1
    /\ LET got == GetAPIKey(store) IN
       IF got.ok
       THEN /\ apiKey' = got.APIKey
            /\ pc' = "do"
            /\ UNCHANGED <<result, exitCode, stdout, stderr>>
       ELSE IF op \in IndicatorOps
       THEN /\ result' = [NoResult EXCEPT !.kind = "err", !.err = got.err]
            /\ pc' = "hStop"
            /\ UNCHANGED <<apiKey, exitCode, stdout, stderr>>
       ELSE /\ Exits(1, PrintError(got.err), <<>>)
            /\ UNCHANGED <<apiKey, result>>
    /\ UNCHANGED <<osArgs, store, op, params, cfgKey, httpReq, httpCalls, fault,
                   outer, inner>>

\* Client.Do from its entry to the call of the transport: the goroutine is
\* started, the body marshalled, the request built and its headers set
DoStart ==
    /\ pc = "do"
    /\ inner' = "select"
    /\ LET req == CatalogCall(op, params) IN
       IF req.HasBody /\ ~MarshalOK(req.Body)
       THEN /\ result' = Failed("failed to marshal request body: ", "json: unsupported type")
            /\ pc' = "doStop"
            /\ UNCHANGED httpReq
       ELSE IF ~NewRequestOK(req.Method, req.Path)
       THEN /\ result' = Failed("failed to create request: ", "net/http: invalid method")
            /\ pc' = "doStop"
            /\ UNCHANGED httpReq
       ELSE /\ httpReq' = HTTPRequest(apiKey, req)
            /\ pc' = "transport"
            /\ UNCHANGED result
    /\ UNCHANGED <<osArgs, store, op, params, cfgKey, apiKey, loads, httpCalls, fault,
                   outer, stdout, stderr, exitCode>>

\* ClientDo with one more attempt after a failed one
ClientDoRetry ==
    /\ pc = "transport"
    /\ \E first \in TransportOutcomes, second \in TransportOutcomes :
          /\ result' = IF first.kind = "err" THEN second ELSE first
          /\ fault' = IF first.kind = "err" /\ second.kind = "err" THEN second.err[2] ELSE ""
          /\ httpCalls' = IF first.kind = "err" THEN httpCalls + 2 ELSE httpCalls + 1
    /\ pc' = "doStop"
    /\ UNCHANGED <<osArgs, store, op, params, cfgKey, apiKey, loads, httpReq,
                   outer, inner, stdout, stderr, exitCode>>

\* resp, err := c.client.Do(httpReq); body, err := io.ReadAll(resp.Body)
ClientDo ==
    /\ pc = "transport"
    /\ \E o \in TransportOutcomes :
          /\ result' = o
          /\ fault' = IF o.kind = "err" THEN o.err[2] ELSE ""
    /\ httpCalls' = httpCalls + 1
    /\ pc' = "doStop"
    /\ UNCHANGED <<osArgs, store, op, params, cfgKey, apiKey, loads, httpReq,
                   outer, inner, stdout, stderr, exitCode>>

\* the goroutine of Client.Do: "default" of its select chosen
InnerSelect ==
    /\ inner = "select"
    /\ pc # "exited"
    /\ ~SendingInner
    /\ Repaints < MaxSpin
    /\ inner' = "default"
    /\ UNCHANGED <<osArgs, store, pc, op, params, cfgKey, apiKey, loads, httpReq,
                   httpCalls, fault, result, outer, stdout, stderr, exitCode>>

\* fmt.Fprintf(os.Stderr, "\rProcessing (%v)...", elapsed); time.Sleep
InnerWrite ==
    /\ inner = "default"
    /\ pc # "exited"
    /\ stderr' = Append(stderr, "Processing")
    /\ inner' = "select"
    /\ UNCHANGED <<osArgs, store, pc, op, params, cfgKey, apiKey, loads, httpReq,
                   httpCalls, fault, result, outer, stdout, exitCode>>

\* InnerStop followed by a second send on the channel: the main flow is
\* left sending to a goroutine that has returned
InnerStopSendsAgain ==
    /\ SendingInner
    /\ inner = "select"
    /\ inner' = "stopped"
    /\ UNCHANGED <<osArgs, store, pc, op, params, cfgKey, apiKey, loads, httpReq,
                   httpCalls, fault, result, outer, stdout, stderr, exitCode>>

\* "done <- true" in Client.Do meets "case <-done: return"
InnerStop ==
    /\ SendingInner
    /\ inner = "select"
    /\ inner' = "stopped"
    /\ pc' = "doClear"
    /\ UNCHANGED <<osArgs, store, op, params, cfgKey, apiKey, loads, httpReq,
                   httpCalls, fault, result, outer, stdout, stderr, exitCode>>

\* fmt.Fprint(os.Stderr, "\r"); return
DoReturn ==
    /\ pc = "doClear"
    /\ stderr' = Append(stderr, "\r")
    /\ pc' = "returned"
    /\ UNCHANGED <<osArgs, store, op, params, cfgKey, apiKey, loads, httpReq,
                   httpCalls, fault, result, outer, inner, stdout, exitCode>>

\* PrintRaw treating a status other than 200 as a failure of the command
PrintRawFailOnStatus ==
    /\ pc = "returned"
    /\ op \in CatalogOps \ IndicatorOps
    /\ IF result.kind = "err"
       THEN Exits(1, PrintError(result.err), <<>>)
       ELSE Exits(IF result.StatusCode = 200 THEN 0 ELSE 1, PrintBody(result), <<>>)
    /\ UNCHANGED <<osArgs, store, op, params, cfgKey, apiKey, loads, httpReq,
                   httpCalls, fault, result, outer, inner>>

\* the handlers without a goroutine of their own, after the catalog call
PrintRaw ==
    /\ pc = "returned"
    /\ op \in CatalogOps \ IndicatorOps
    /\ IF result.kind = "err"
       THEN Exits(1, PrintError(result.err), <<>>)
       ELSE Exits(0, PrintBody(result), <<>>)
    /\ UNCHANGED <<osArgs, store, op, params, cfgKey, apiKey, loads, httpReq,
                   httpCalls, fault, result, outer, inner>>

\* the handler's goroutine: "default" of its select chosen
OuterSelect ==
    /\ outer = "select"
    /\ pc # "exited"
    /\ ~SendingOuter
    /\ Repaints < MaxSpin
    /\ outer' = "default"
    /\ UNCHANGED <<osArgs, store, pc, op, params, cfgKey, apiKey, loads, httpReq,
                   httpCalls, fault, result, inner, stdout, stderr, exitCode>>

OuterWrite ==
    /\ outer = "default"
    /\ pc # "exited"
    /\ stderr' = Append(stderr, "Processing")
    /\ outer' = "select"
    /\ UNCHANGED <<osArgs, store, pc, op, params, cfgKey, apiKey, loads, httpReq,
                   httpCalls, fault, result, inner, stdout, exitCode>>

\* OuterStop with a buffered channel, make(chan bool, 1): the send does not
\* wait for the goroutine to receive
OuterStopBuffered ==
    /\ SendingOuter
    /\ outer \in {"select", "default"}
    /\ pc' = "hStopped"
    /\ UNCHANGED <<osArgs, store, op, params, cfgKey, apiKey, loads, httpReq,
                   httpCalls, fault, result, outer, inner, stdout, stderr, exitCode>>

\* "done <- true" in the handler meets "case <-done: return"
OuterStop ==
    /\ SendingOuter
    /\ outer = "select"
    /\ outer' = "stopped"
    /\ pc' = "hStopped"
    /\ UNCHANGED <<osArgs, store, op, params, cfgKey, apiKey, loads, httpReq,
                   httpCalls, fault, result, inner, stdout, stderr, exitCode>>

\* what the twitter, phone and database handlers print for a response
PrintResponse(o, resp, configAPIKey) ==
    CASE o = "twitter"       -> PrintTwitter(resp)
      [] o = "reverse_phone" -> PrintPhone(resp, configAPIKey)
      [] OTHER               -> PrintDatabase(resp, configAPIKey)

\* the twitter, phone and database handlers after their "done <- true"
HandlerFinish ==
    /\ pc = "hStopped"
    /\ IF result.kind = "err"
       THEN Exits(1, PrintErrorOnNewLine(result.err), <<>>)
       ELSE Exits(0, PrintResponse(op, result, cfgKey), <<"\r">>)
    /\ UNCHANGED <<osArgs, store, op, params, cfgKey, apiKey, loads, httpReq,
                   httpCalls, fault, result, outer, inner>>

\* config set-api-key: config.SetAPIKey(apiKey) and the report
SetKey ==
    /\ pc = "setKey"
    /\ loads' = loads + 1
    /\ \E outcome \in SaveOutcomes(store) :
          LET set == SetAPIKey(store, params["key"], outcome) IN
          /\ store' = set.store
          /\ IF set.ok
             THEN Exits(0, << <<"API key set successfully">> >>, <<>>)
             ELSE Exits(1, PrintError(set.err), <<>>)
    /\ UNCHANGED <<osArgs, op, params, cfgKey, apiKey, httpReq, httpCalls, fault,
                   result, outer, inner>>

Next ==
    \/ Main
    \/ ConfigLoad
    \/ GetClient
    \/ DoStart
    \/ ClientDo
    \/ InnerSelect
    \/ InnerWrite
    \/ InnerStop
    \/ DoReturn
    \/ PrintRaw
    \/ OuterSelect
    \/ OuterWrite
    \/ OuterStop
    \/ HandlerFinish
    \/ SetKey

Spec == Init /\ [][Next]_vars

-----------------------------------------------------------------------------
(* package api on its own: Client.Do called through any catalog method by  *)
(* any caller of api.NewClient(apiKey), the empty key included.            *)

\* the flags that carry the arguments of each catalog method
OpFlags(o) ==
    CASE o = "credits"          -> NoFlags
      [] o = "youtube_comments" -> YouTubeCommentsFlags
      [] o = "youtube_replies"  -> YouTubeRepliesFlags
      [] o = "reverse_phone"    -> ReversePhoneFlags
      [] o = "reverse_email"    -> ReverseEmailFlags
      [] o = "twitter"          -> TwitterFlags
      [] o = "database"         -> DatabaseFlags
      [] o = "twitch_messages"  -> TwitchMessagesFlags
      [] o = "twitch_timeouts"  -> UsernameOffsetFlags
      [] o = "twitch_history"   -> TwitchHistoryFlags
      [] o = "kick_messages"    -> UsernameOffsetFlags
      [] OTHER                  -> UsernameFlags

\* the argument values tried for each type
ValuesOfKind(kind) ==
    CASE kind = "string" -> {"", "bob"}
      [] kind = "int"    -> {"0", "7"}
      [] OTHER           -> {"false", "true"}

ApiArguments(o) ==
    {v \in [DOMAIN OpFlags(o) -> {"", "bob", "0", "7", "false", "true"}] :
        \A n \in DOMAIN OpFlags(o) : v[n] \in ValuesOfKind(OpFlags(o)[n].kind)}

\* api.NewClient(key) followed by one catalog call
InitApi ==
    /\ osArgs = <<Program>>
    /\ store = Store("missing", "")
    /\ pc = "do"
    /\ op \in CatalogOps
    /\ params \in ApiArguments(op)
    /\ cfgKey = ""
    /\ apiKey \in {"", "k1"}
    /\ loads = 0
    /\ httpReq = NoRequest
    /\ httpCalls = 0
    /\ fault = ""
    /\ result = NoResult
    /\ outer = "none"
    /\ inner = "none"
    /\ stdout = <<>>
    /\ stderr = <<>>
    /\ exitCode = -1

NextApi ==
    \/ DoStart
    \/ ClientDo
    \/ InnerSelect
    \/ InnerWrite
    \/ InnerStop
    \/ DoReturn

SpecApi == InitApi /\ [][NextApi]_vars

-----------------------------------------------------------------------------
(* The status interpretation of the phone and database handlers on its     *)
(* own: the handler after its "done <- true", for any response and any     *)
(* value of config.APIKey.                                                 *)

InterpretedBodies ==
    SeqsUpTo(JsonTokens, MaxBodyLen)
    \cup ServedBodies
    \cup {<<"[", "1", ",", "1", "]">>, <<"{", "\"a\"", ":", "[", "]", "}">>,
          <<"[", "1", ",", "]">>}

InitInterpret ==
    /\ osArgs = <<Program>>
    /\ store = Store("missing", "")
    /\ pc = "hStopped"
    /\ op \in {"reverse_phone", "database"}
    /\ params = EmptyMap
    /\ cfgKey \in {"", "k1"}
    /\ apiKey = "k1"
    /\ loads = 2
    /\ httpReq = NoRequest
    /\ httpCalls = 1
    /\ fault = ""
    /\ result \in {Response(c, b) : c \in StatusCodes, b \in InterpretedBodies}
    /\ outer = "stopped"
    /\ inner = "stopped"
    /\ stdout = <<>>
    /\ stderr = <<>>
    /\ exitCode = -1

SpecInterpret == InitInterpret /\ [][HandlerFinish]_vars

-----------------------------------------------------------------------------
(* The program under the Go scheduler: every goroutine that can run does   *)
(* run.  The transport call is left out: nothing makes it return.          *)

\* the invocations followed to their exit
LiveInvocations ==
    {<<Program, "credits">>,
     <<Program, "twitter">>,
     <<Program, "twitter", "--handle=bob">>,
     <<Program, "twitch", "history", "--username=bob">>,
     <<Program, "reverse", "phone", "5551234">>,
     <<Program, "database", "--query=bob">>,
     <<Program, "config", "set-api-key", "newkey">>}

InitLive == Init /\ osArgs \in LiveInvocations

\* the steps of the main goroutine other than the transport call
MainFlow ==
    \/ Main
    \/ ConfigLoad
    \/ GetClient
    \/ DoStart
    \/ InnerStop
    \/ DoReturn
    \/ PrintRaw
    \/ OuterStop
    \/ HandlerFinish
    \/ SetKey

InnerGoroutine == InnerSelect \/ InnerWrite

OuterGoroutine == OuterSelect \/ OuterWrite

Scheduling ==
    /\ WF_vars(MainFlow)
    /\ WF_vars(InnerGoroutine)
    /\ WF_vars(OuterGoroutine)

SpecLive == InitLive /\ [][Next]_vars /\ Scheduling

-----------------------------------------------------------------------------
(* The claims.                                                             *)

\* C1: for every catalog operation and every credential held by the client,
\* the empty one included, the request Client.Do builds carries an apikey
\* header equal to the client's credential; no header of a catalog
\* operation replaces or removes it.  (SpecApi)
C1_ApikeyHeader ==
    httpReq.built =>
        /\ HasHeader(httpReq.Header, "apikey")
        /\ HeaderGet(httpReq.Header, "apikey") = apiKey
        /\ HeaderGet(httpReq.Header, "Content-Type") = "application/json"

\* a request built for a client that holds the empty credential, with the
\* headers of a catalog operation set on it
C1_Witness ==
    /\ httpReq.built
    /\ apiKey = ""
    /\ op = "reverse_phone"
    /\ HasHeader(httpReq.Header, "phone")
    /\ HeaderGet(httpReq.Header, "apikey") = ""

\* C2 (as claimed): "reverse phone --phone 5551234", or the same number given
\* as the positional argument, with no credential configured still issues
\* one request to /reverse_phone_lookup with an empty apikey, and on a 401
\* the output is the instruction to set the API key.
C2_PhoneWithoutCredential ==
    ( /\ pc = "exited"
      /\ osArgs \in {<<Program, "reverse", "phone", "--phone", "5551234">>,
                     <<Program, "reverse", "phone", "5551234">>}
      /\ store \in {Store("missing", ""), Store("ok", "")} )
    => /\ httpCalls = 1
       /\ httpReq.built
       /\ httpReq.URL = <<baseURL, "/reverse_phone_lookup">>
       /\ HeaderGet(httpReq.Header, "apikey") = ""
       /\ result.StatusCode = 401 => stdout = SetKeyLines

\* the credential store cannot be read or parsed, or holds no key
C3_NoCredential ==
    \/ store.st \in {"nohome", "unreadable", "unparsable"}
    \/ store.key = ""

\* C3: for every command that calls the remote service, when the credential
\* store cannot be read or parsed or the stored credential is absent or
\* empty, no HTTP request is ever issued, and the command that got to the
\* credential ends with exit code 1 after printing an error, which for the
\* absent credential tells how to set the key.
C3_CredentialError ==
    (C3_NoCredential /\ op \in CatalogOps) =>
        /\ httpCalls = 0
        /\ ~httpReq.built
        /\ pc = "exited" =>
              /\ exitCode = 1
              /\ loads > 0
              /\ Len(Last(stdout)) > 1
              /\ Last(stdout)[1] = "Error: "
              /\ store.st \in {"missing", "ok"} =>
                    Last(stdout) = <<"Error: ",
                        "API key not set. Use 'lolarchiver-cli config set-api-key' to set it">>

\* the phone lookup stopped by the missing credential after its own
\* config.Load() succeeded
C3_Witness ==
    /\ pc = "exited"
    /\ op = "reverse_phone"
    /\ store = Store("missing", "")
    /\ loads = 2
    /\ exitCode = 1

\* C4: under every interleaving of the main flow and the indicator
\* goroutines, no goroutine is still running when the main flow has printed
\* a line, no repaint is written after a line was printed, and when
\* Client.Do has returned its goroutine has received the stop signal and the
\* carriage return has been written.
C4_IndicatorsStoppedBeforeOutput ==
    /\ [](stdout # <<>> => inner \in {"none", "stopped"} /\ outer \in {"none", "stopped"})
    /\ [](pc = "returned" =>
              inner = "stopped" /\ \E i \in DOMAIN stderr : stderr[i] = "\r")
    /\ [][stdout # <<>> => Repaints' = Repaints]_vars

\* a database search that printed its result after both goroutines had
\* repainted and were stopped
C4_Witness ==
    /\ pc = "exited"
    /\ op = "database"
    /\ result.kind = "ok"
    /\ stdout # <<>>
    /\ Repaints > 0
    /\ outer = "stopped"
    /\ inner = "stopped"

\* C5: an invocation that reaches the client makes one transport call and
\* never a second one; when the transport fails, Client.Do returns an error
\* that wraps the underlying cause, the command prints it and exits with
\* code 1.
C5_OneRequestNoRetry ==
    /\ httpCalls <= 1
    /\ (pc = "exited" /\ inner # "none") => httpCalls = 1
    /\ (pc = "exited" /\ result.kind = "err" /\ inner # "none") =>
          /\ exitCode = 1
          /\ fault # ""
          /\ result.err \in {<<"failed to perform request: ", fault>>,
                             <<"failed to read response body: ", fault>>}
          /\ Last(stdout) = <<"Error: ">> \o result.err

\* a command ended by a failed read of the response body
C5_Witness ==
    /\ pc = "exited"
    /\ fault = "unexpected EOF"
    /\ httpCalls = 1
    /\ exitCode = 1

\* C6 (as claimed): in every request of an operation that places its
\* parameters in headers, an optional parameter the caller did not supply is
\* absent from the headers, no parameter is sent with an empty value, and
\* the required parameter is present.
C6_OptionalHeadersOmitted ==
    (httpReq.built /\ op \in CatalogOps \ {"credits", "youtube_comments", "youtube_replies"}) =>
        /\ \A k \in DOMAIN httpReq.Header : httpReq.Header[k] # ""
        /\ op = "twitch_history" =>
              /\ HasHeader(httpReq.Header, "username")
              /\ HasHeader(httpReq.Header, "mode") <=> params["mode"] # ""
        /\ op = "twitter" =>
              /\ HasHeader(httpReq.Header, "handle") <=> params["handle"] # ""
              /\ HasHeader(httpReq.Header, "id") <=> params["id"] # "0"
              /\ HasHeader(httpReq.Header, "byold") <=> params["by-old"] = "true"
        /\ op = "reverse_phone" =>
              /\ HasHeader(httpReq.Header, "phone")
              /\ HasHeader(httpReq.Header, "insecuremode") <=> params["insecure"] = "true"
        /\ op = "reverse_email" =>
              /\ HasHeader(httpReq.Header, "email")
              /\ HasHeader(httpReq.Header, "insecuremode") <=> params["insecure"] = "true"
        /\ op = "database" =>
              /\ HasHeader(httpReq.Header, "query")
              /\ HasHeader(httpReq.Header, "exact") <=> params["exact"] = "true"

\* the table of the status interpreter, by endpoint group
C7_Noun(o) == IF o = "reverse_phone" THEN "phone" ELSE "database"
C7_Subject(o) == IF o = "reverse_phone" THEN "this phone number" ELSE "this query"
C7_CapitalNoun(o) == IF o = "reverse_phone" THEN "Phone" ELSE "Database"

C7_Unavailable(o) ==
    << <<"Error: " \o C7_CapitalNoun(o) \o " lookup is only available through the web interface or you exceeded rate limit for today/this month.">>,
       <<"Please visit https://lolarchiver.com to use this feature.">> >>

C7_Fixed(o) ==
    [c \in {402, 403, 404, 416, 500} |->
        CASE c = 402 -> C7_Unavailable(o)
          [] c = 403 ->
               << <<"Error: Your current plan does not support " \o C7_Noun(o) \o " lookup or you exceeded rate limit for today/this month.">>,
                  <<"Please upgrade your plan or use the web interface at https://lolarchiver.com">> >>
          [] c = 404 -> << <<"Error: No results found for " \o C7_Subject(o)>> >>
          [] c = 416 -> << <<"Error: You have exhausted all credits. Credits refresh in 24 hours">> >>
          [] OTHER   -> << <<"Error: Internal server error">> >>]

C7_PhoneOnly ==
    [c \in {405, 406, 415} |->
        CASE c = 405 -> << <<"Error: Phone number is too long">> >>
          [] c = 406 -> << <<"Error: Phone number format is incorrect">> >>
          [] OTHER   -> << <<"Error: Owner requested these results to be hidden">> >>]

C7_UnexpectedStatus(code, body) ==
    /\ Len(stdout) = IF body = <<>> THEN 1 ELSE 2
    /\ stdout[1] = <<"Error: Unexpected response (Status ", ToString(code), ")">>
    /\ body # <<>> => stdout[2] = body

\* a printed line with the layout of the pretty-printer taken out
C7_Compact(line) == SelectSeq(line, LAMBDA t : t \notin {"\n", "  ", " "})

\* bodies that are not JSON whatever follows: text that is no JSON token,
\* or a first token that cannot begin a value
C7_NotJson(body) ==
    \/ \E i \in DOMAIN body : body[i] = "x"
    \/ body[1] \in {"}", "]", ":", ","}

C7_Found(o, body) ==
    IF body = <<>> \/ body = <<"[", "]">>
    THEN stdout = << <<"No data found for " \o C7_Subject(o)>> >>
    ELSE /\ Len(stdout) = 1
         /\ C7_Compact(stdout[1]) = body
         /\ C7_NotJson(body) => stdout[1] = body
         /\ body = <<"{", "\"a\"", ":", "1", "}">> =>
               stdout[1] = <<"{", "\n", "  ", "\"a\"", ":", " ", "1", "\n", "}">>
         /\ body = <<"[", "1", ",", "1", "]">> =>
               stdout[1] = <<"[", "\n", "  ", "1", ",", "\n", "  ", "1", "\n", "]">>
         /\ body = <<"[", "1", ",", "]">> => stdout[1] = body

\* C7: for phone lookup and database search what is printed is the function
\* of (status code, body, loaded credential empty) of the status table: 200
\* with an empty or [] body gives "no data found", 200 otherwise the
\* pretty-printed JSON or the raw text when the body is not JSON; 401 the
\* set-key instruction when the loaded credential is empty and the
\* unavailable message otherwise; 402, 403, 404, 416, 500 their fixed
\* messages whatever the body; 405, 406, 415 dedicated messages for phone
\* only; every other code, and 405, 406, 415 for database, "unexpected
\* status" followed by the body when it is not empty.  (SpecInterpret)
C7_StatusTable ==
    pc = "exited" =>
        LET code == result.StatusCode
            body == result.Body
        IN
        CASE code = 200 -> C7_Found(op, body)
          [] code = 401 ->
                stdout = IF cfgKey = "" THEN SetKeyLines ELSE C7_Unavailable(op)
          [] code \in {402, 403, 404, 416, 500} -> stdout = C7_Fixed(op)[code]
          [] code \in {405, 406, 415} /\ op = "reverse_phone" -> stdout = C7_PhoneOnly[code]
          [] OTHER -> C7_UnexpectedStatus(code, body)

\* the database search answered 405 with a body: the phone-only code falls
\* to the unexpected outcome and the body is echoed
C7_Witness ==
    /\ pc = "exited"
    /\ op = "database"
    /\ result.StatusCode = 405
    /\ result.Body = <<"x">>
    /\ Len(stdout) = 2

\* C8: whenever the HTTP call completes with a response, whatever its
\* status code, the command prints its output and the process exits with
\* code 0.
C8_ResponseExitsZero ==
    (pc = "exited" /\ result.kind = "ok") =>
        /\ exitCode = 0
        /\ stdout # <<>>
        /\ httpCalls = 1

\* a command without status interpretation that got status 500 and ended
\* with exit code 0
C8_Witness ==
    /\ pc = "exited"
    /\ op = "credits"
    /\ result.kind = "ok"
    /\ result.StatusCode = 500
    /\ exitCode = 0

\* the messages the flag package writes for an unknown or malformed flag
C9_FlagErrors ==
    {"flag provided but not defined", "flag needs an argument", "invalid value",
     "invalid boolean value"}

C9_FlagErrorReported == \E i \in DOMAIN stderr : stderr[i] \in C9_FlagErrors

C9_KnownCommands ==
    {"credits", "youtube", "twitter", "twitch", "kick", "reverse", "database",
     "config", "version", "help"}

C9_WithSubcommand == {"youtube", "twitch", "kick", "reverse", "config"}

\* C9 (as claimed): the router exits with code 1 on every usage error
\* (unknown command, missing subcommand, unknown or malformed flag) and on
\* every execution error, never with another code than 0 or 1, and prints
\* the usage text when invoked without arguments or with help.
C9_ExitCodes ==
    pc = "exited" =>
        /\ exitCode \in {0, 1}
        /\ Len(osArgs) = 1 => exitCode = 1 /\ stdout = printUsage
        /\ (Len(osArgs) > 1 /\ osArgs[2] = "help") => exitCode = 0 /\ stdout = printUsage
        /\ (Len(osArgs) > 1 /\ osArgs[2] \notin C9_KnownCommands) => exitCode = 1
        /\ (Len(osArgs) = 2 /\ osArgs[2] \in C9_WithSubcommand) => exitCode = 1
        /\ C9_FlagErrorReported => exitCode = 1
        /\ result.kind = "err" => exitCode = 1

\* the commands with a required parameter: their words, the optional flags
\* of their own that leave the requirement unmet, the requirement they
\* print and the flag set whose defaults they print
C10_Case(words, optional, line, name) ==
    [words |-> words, optional |-> optional, line |-> line, name |-> name]

C10_Cases ==
    { C10_Case(<<"youtube", "comments">>, {"--offset=7"},
               "Error: At least one of user-id, handle, or channel-id must be provided",
               "comments"),
      C10_Case(<<"youtube", "replies">>, {}, "Error: comment-id is required", "replies"),
      C10_Case(<<"twitter">>, {"--by-old", "--id=0"},
               "Error: Either handle or id must be provided", "twitter"),
      C10_Case(<<"twitch", "messages">>, {"--offset=7", "--server=main"},
               "Error: username is required", "messages"),
      C10_Case(<<"twitch", "timeouts">>, {"--offset=7"}, "Error: username is required", "timeouts"),
      C10_Case(<<"twitch", "history">>, {"--mode=utype"}, "Error: username is required", "history"),
      C10_Case(<<"twitch", "followage">>, {}, "Error: username is required", "followage"),
      C10_Case(<<"twitch", "followers">>, {}, "Error: username is required", "followers"),
      C10_Case(<<"kick", "messages">>, {"--offset=7"}, "Error: username is required", "messages"),
      C10_Case(<<"kick", "timeouts">>, {}, "Error: username is required", "timeouts"),
      C10_Case(<<"kick", "mods">>, {}, "Error: username is required", "mods"),
      C10_Case(<<"kick", "subscribers">>, {}, "Error: username is required", "subscribers"),
      C10_Case(<<"reverse", "phone">>, {"--insecure"}, "Error: phone is required", "phone"),
      C10_Case(<<"reverse", "email">>, {"--insecure"}, "Error: email is required", "email"),
      C10_Case(<<"database">>, {"--exact"}, "Error: query is required", "database") }

\* the command of the case was invoked and nothing but optional flags of
\* its own follows its words
C10_Unmet(c) ==
    /\ Len(osArgs) >= 1 + Len(c.words)
    /\ SubSeq(osArgs, 2, 1 + Len(c.words)) = c.words
    /\ \A i \in (2 + Len(c.words))..Len(osArgs) : osArgs[i] \in c.optional

\* C10 (as claimed): for every command with a required parameter, when the
\* requirement is not satisfied the command prints the requirement and the
\* flag defaults, exits with code 1, and neither loads the credential nor
\* issues an HTTP request.
C10_RequirementEnforced ==
    pc = "exited" =>
        \A c \in C10_Cases :
            C10_Unmet(c) =>
                /\ exitCode = 1
                /\ stdout = << <<c.line>> >>
                /\ stderr = PrintDefaults(c.name)
                /\ loads = 0
                /\ httpCalls = 0

\* C11 (as claimed): for every endpoint other than phone lookup and database
\* search, when the call returns a response the standard output is exactly
\* the response body, for every status code and every body, the empty body
\* included; credits issues a single POST to /credits_left without a body.
C11_RawBodyPrinted ==
    ( /\ pc = "exited"
      /\ result.kind = "ok"
      /\ op \in CatalogOps \ {"reverse_phone", "database"} )
    => /\ stdout = << result.Body >>
       /\ httpCalls = 1
       /\ op = "credits" =>
             /\ httpReq.Method = "POST"
             /\ httpReq.URL = <<baseURL, "/credits_left">>
             /\ ~httpReq.HasBody

\* the invocations of the two youtube commands with their requirement met
C12_Comments ==
    {<<Program, "youtube", "comments">> \o t :
        t \in {u \in SeqsUpTo({"--user-id=bob", "--handle=bob", "--channel-id=bob",
                               "--offset=7"}, MaxArgs) :
                  \E i \in DOMAIN u : u[i] # "--offset=7"}}

C12_Replies == {<<Program, "youtube", "replies", "--comment-id=bob">>}

C12_Given(flag) == \E i \in DOMAIN osArgs : osArgs[i] = flag

\* the members of the JSON body of the request, as name -> text
C12_BodyNames == {httpReq.Body[i].name : i \in DOMAIN httpReq.Body}

C12_BodyText(name) ==
    LET i == CHOOSE j \in DOMAIN httpReq.Body : httpReq.Body[j].name = name
    IN  httpReq.Body[i].text

\* C12 (as claimed): with a credential configured, youtube comments with at
\* least one of --user-id, --handle, --channel-id (and optionally --offset)
\* and youtube replies --comment-id C reach the network call: comments
\* POSTs to /youtube/user_all_comments a body with offset and exactly the
\* identifiers supplied, replies POSTs to /youtube/comment_replies a body
\* with comment_id = C.
C12_YouTubeReachesNetwork ==
    (pc = "exited" /\ store = Store("ok", "k1")) =>
        /\ osArgs \in C12_Comments =>
              /\ httpCalls = 1
              /\ httpReq.Method = "POST"
              /\ httpReq.URL = <<baseURL, "/youtube/user_all_comments">>
              /\ C12_BodyNames =
                    {"offset"}
                    \cup (IF C12_Given("--user-id=bob") THEN {"user_id"} ELSE {})
                    \cup (IF C12_Given("--handle=bob") THEN {"handle"} ELSE {})
                    \cup (IF C12_Given("--channel-id=bob") THEN {"channel_id"} ELSE {})
              /\ C12_BodyText("offset") = IF C12_Given("--offset=7") THEN "7" ELSE "0"
        /\ osArgs \in C12_Replies =>
              /\ httpCalls = 1
              /\ httpReq.Method = "POST"
              /\ httpReq.URL = <<baseURL, "/youtube/comment_replies">>
              /\ C12_BodyNames = {"comment_id"}
              /\ C12_BodyText("comment_id") = "bob"

\* the invocations of the two reverse lookups with the lookup value given
\* by its flag, with and without --insecure
C13_Email ==
    {<<Program, "reverse", "email", "--email=bob">>,
     <<Program, "reverse", "email", "--email=bob", "--insecure">>,
     <<Program, "reverse", "email", "--insecure", "--email=bob">>}

C13_Phone ==
    {<<Program, "reverse", "phone", "--phone", "5551234">>,
     <<Program, "reverse", "phone", "--phone", "5551234", "--insecure">>,
     <<Program, "reverse", "phone", "--insecure", "--phone", "5551234">>}

C13_Insecure == \E i \in DOMAIN osArgs : osArgs[i] = "--insecure"

\* C13 (as claimed): with a credential configured, reverse email --email E
\* and reverse phone --phone P, with or without --insecure, reach the
\* network call: a POST to /reverse_email_lookup (/reverse_phone_lookup)
\* with header email = E (phone = P), and header insecuremode = true
\* exactly when --insecure was given.
C13_ReverseReachesNetwork ==
    (pc = "exited" /\ store = Store("ok", "k1")) =>
        /\ osArgs \in C13_Email =>
              /\ httpCalls = 1
              /\ httpReq.Method = "POST"
              /\ httpReq.URL = <<baseURL, "/reverse_email_lookup">>
              /\ HasHeader(httpReq.Header, "email")
              /\ HeaderGet(httpReq.Header, "email") = "bob"
              /\ HasHeader(httpReq.Header, "insecuremode") <=> C13_Insecure
        /\ osArgs \in C13_Phone =>
              /\ httpCalls = 1
              /\ httpReq.Method = "POST"
              /\ httpReq.URL = <<baseURL, "/reverse_phone_lookup">>
              /\ HasHeader(httpReq.Header, "phone")
              /\ HeaderGet(httpReq.Header, "phone") = "5551234"
              /\ HasHeader(httpReq.Header, "insecuremode") <=> C13_Insecure

\* the interface table: path, placement and parameters of each operation
C14_Row(path, place, names) == [path |-> path, place |-> place, names |-> names]

C14_Table ==
    [o \in CatalogOps |->
        CASE o = "credits"          -> C14_Row("/credits_left", "none", {})
          [] o = "youtube_comments" ->
                C14_Row("/youtube/user_all_comments", "body",
                        {"user_id", "handle", "channel_id", "offset"})
          [] o = "youtube_replies"  -> C14_Row("/youtube/comment_replies", "body", {"comment_id"})
          [] o = "reverse_phone"    ->
                C14_Row("/reverse_phone_lookup", "headers", {"phone", "insecuremode"})
          [] o = "reverse_email"    ->
                C14_Row("/reverse_email_lookup", "headers", {"email", "insecuremode"})
          [] o = "twitter"          ->
                C14_Row("/twitter_history_lookup", "headers", {"handle", "id", "byold"})
          [] o = "database"         -> C14_Row("/database_lookup", "headers", {"query", "exact"})
          [] o = "twitch_messages"  ->
                C14_Row("/twitch/user_all_messages", "headers", {"username", "server", "offset"})
          [] o = "twitch_timeouts"  ->
                C14_Row("/twitch/user_all_timeouts", "headers", {"username", "offset"})
          [] o = "twitch_history"   -> C14_Row("/twitch/user_history", "headers", {"username", "mode"})
          [] o = "twitch_followage" -> C14_Row("/twitch/followage", "headers", {"username"})
          [] o = "twitch_followers" -> C14_Row("/twitch/followers", "headers", {"username"})
          [] o = "kick_messages"    ->
                C14_Row("/kick/user_all_messages", "headers", {"username", "offset"})
          [] o = "kick_timeouts"    -> C14_Row("/kick/user_all_timeouts", "headers", {"username"})
          [] o = "kick_mods"        -> C14_Row("/kick/user_channel_mods_in", "headers", {"username"})
          [] OTHER                  -> C14_Row("/kick/user_subscribers_list", "headers", {"username"})]

\* the headers of the request other than the two Client.Do sets itself
C14_ParameterHeaders == DOMAIN httpReq.Header \ {"Apikey", "Content-Type"}

C14_BodyNames == {httpReq.Body[i].name : i \in DOMAIN httpReq.Body}

\* C14: every catalog operation builds a request with method POST and the
\* path the interface table lists for it, and places its parameters as the
\* table says: the two YouTube operations in the JSON body with no
\* parameter header, credits with neither body nor parameter header, every
\* other operation in headers with no body.  (SpecApi)
C14_InterfaceTable ==
    httpReq.built =>
        LET row == C14_Table[op] IN
        /\ httpReq.Method = "POST"
        /\ httpReq.URL = <<baseURL, row.path>>
        /\ CASE row.place = "body" ->
                    /\ httpReq.HasBody
                    /\ C14_BodyNames # {}
                    /\ C14_BodyNames \subseteq row.names
                    /\ C14_ParameterHeaders = {}
             [] row.place = "none" ->
                    /\ ~httpReq.HasBody
                    /\ httpReq.Body = <<>>
                    /\ C14_ParameterHeaders = {}
             [] OTHER ->
                    /\ ~httpReq.HasBody
                    /\ httpReq.Body = <<>>
                    /\ C14_ParameterHeaders \subseteq {CanonicalHeaderKey(n) : n \in row.names}
                    /\ \A k \in C14_ParameterHeaders : httpReq.Header[k] \in {params[n] : n \in DOMAIN params}

\* requests of a body operation, a header operation and credits have been
\* built; this one is the followers request with its username header
C14_Witness ==
    /\ httpReq.built
    /\ op = "twitch_followers"
    /\ httpReq.URL = <<baseURL, "/twitch/followers">>
    /\ C14_ParameterHeaders = {"Username"}
    /\ httpReq.Header["Username"] = "bob"

\* the invocation is config set-api-key with a key that is not empty
C15_SetsKey ==
    /\ Len(osArgs) >= 4
    /\ osArgs[2] = "config"
    /\ osArgs[3] = "set-api-key"
    /\ osArgs[4] # ""

\* C15: the persisted credential changes only through config set-api-key
\* with a non-empty key: no step of any other command changes the store,
\* and neither does config set-api-key without a key argument or with an
\* existing config file that cannot be read or parsed; a set-api-key that
\* succeeds leaves the given key in the store.
C15_StoreFrame ==
    /\ [][store' # store =>
              /\ C15_SetsKey
              /\ store.st \notin {"unreadable", "unparsable"}]_vars
    /\ []((pc = "exited" /\ op = "set-api-key" /\ exitCode = 0) =>
              store = Store("ok", osArgs[4]))

\* a set-api-key that put the new key in the store
C15_Witness ==
    /\ pc = "exited"
    /\ osArgs = <<Program, "config", "set-api-key", "newkey">>
    /\ store = Store("ok", "newkey")
    /\ exitCode = 0

\* an indicator goroutine that has been started and has not returned
C16_Running(g) == g \in {"select", "default"}

\* C16 (as claimed): in every invocation at most one elapsed-time indicator
\* task is running at any moment.
C16_OneIndicator == ~(C16_Running(outer) /\ C16_Running(inner))

\* C17: every stop signal is received: once the transport call has
\* completed or failed, and on the handlers' error paths before it, the
\* command reaches its exit, and at the exit no indicator goroutine is left
\* running; a goroutine that has returned is never sent to again.
\* (SpecLive, under fair scheduling)
C17_IndicatorsTerminate ==
    /\ (pc \in {"doStop", "hStop"}) ~> (pc = "exited")
    /\ [](pc = "exited" => ~C16_Running(inner) /\ ~C16_Running(outer))
    /\ [](SendingInner => inner # "stopped")
    /\ [](SendingOuter => outer # "stopped")

\* a database search whose transport failed, ended with both goroutines
\* stopped after they had repainted
C17_Witness ==
    /\ pc = "exited"
    /\ op = "database"
    /\ fault = "dial tcp: connection refused"
    /\ outer = "stopped"
    /\ inner = "stopped"
    /\ Repaints > 0
    /\ exitCode = 1

====
